---- MODULE Spec2Model ----
(***************************************************************************)
(* Bottom-up strongly connected components of the static call graph        *)
(* (cmd/compile/internal/gc/scc.go): visitBottomUp and                     *)
(* bottomUpVisitor.visit, as a state machine.  The recursion of visit is   *)
(* unfolded into an explicit chain of activation frames.                   *)
(***************************************************************************)
EXTENDS Integers, Sequences, FiniteSets, TLC

(* ------------------------------ bounds --------------------------------- *)
\* number of function declarations (top-level functions and closures)
NumFuncs == 4
\* total number of function references in all bodies together
MaxRefs == 3
\* number of entries of the list given to visitBottomUp beyond the
\* declarations themselves (non-function entries, repeated entries)
MaxExtra == 1
\* width of the counter visitgen and of the ordinals in nodeID (uint32 in
\* the source; the model keeps the arithmetic modulo 2^CounterBits)
CounterBits == 8
\* number of comma-separated entries of the GOEXPERIMENT string
MaxEntries == 3

(* --------------------------- program constants -------------------------- *)
\* a nil Defn (scc.go:85), the zero value of a missing nodeID entry
\* (scc.go:69), and a list entry whose Op is not ODCLFUNC (scc.go:59)
Nil == 0
\* ^uint32(0), the ordinal of a function already passed to analyze
Sentinel == 2^CounterBits - 1

Funcs == 1..NumFuncs

VARIABLES
    outer,      \* outer[f]: the declaration f is a hidden closure of, or Nil
    body,       \* body[f]: the Defn of each function reference ir.Visit meets in f
    listed,     \* how many declarations of the list the loop has consumed
    extras,     \* how many other entries of the list the loop has consumed
    pc,         \* "loop": in visitBottomUp's range loop; "done": it returned
    visitgen,   \* bottomUpVisitor.visitgen
    nodeID,     \* bottomUpVisitor.nodeID
    stack,      \* bottomUpVisitor.stack
    frames,     \* the active calls of visit, outermost first
    calls,      \* the invocations of analyze so far, in order
    arrays,     \* the backing arrays allocated for v.stack, in order
    stackArr,   \* the backing array v.stack points into; 0: v.stack is nil
    GOARCH,     \* objabi.GOARCH
    BaselineFlags,  \* goexperiment.BaselineFlags
    env,        \* envOr("GOEXPERIMENT", defaultGOEXPERIMENT)
    entries,    \* what is left of strings.Split(env, ",") in init's loop
    Experiment, \* objabi.Experiment
    ipc         \* where init of package objabi is

\* the state of package objabi
expVars == <<GOARCH, BaselineFlags, env, entries, Experiment, ipc>>

vars == <<outer, body, listed, extras, pc, visitgen, nodeID, stack, frames, calls,
          arrays, stackArr, expVars>>

(* ------------------------------ the input ------------------------------- *)
\* The call graph is the one ir.Visit shows to visit: body[f] lists, in
\* traversal order, the Defn of every function reference in f.  A hidden
\* closure has no name a body could mention: the only reference to it is
\* its OCLOSURE literal, which stands once in the body of the declaration
\* it is nested in, or nowhere when that code was removed as dead (the
\* closure is then still a declaration of the list).
\* n.IsHiddenClosure()
IsHiddenClosure(n) == outer[n] # Nil

\* the closure literals (OCLOSURE) a body may contain under nesting o: the
\* closures declared directly inside f
Kids(o, f) == {t \in Funcs : o[t] = f}

\* what a reference met in f's body may resolve to: no declaration (Nil), a
\* function that is not a hidden closure (ONAME, OMETHEXPR, ODOTMETH,
\* OCALLPART) or a closure literal of f itself (OCLOSURE)
RefTargets(o, f) == {Nil} \cup {t \in Funcs : o[t] = Nil} \cup Kids(o, f)

\* the bodies of f with at most k references; a closure literal occurs in
\* one place only
BodiesOf(o, f, k) ==
    {s \in UNION {[1..n -> RefTargets(o, f)] : n \in 0..k} :
        \A i, j \in 1..Len(s) : (i # j /\ s[i] = s[j]) => s[i] \notin Kids(o, f)}

\* the bodies of declarations 1..f, with at most k references in all
RECURSIVE BodyMaps(_, _, _)
BodyMaps(o, f, k) ==
    IF f = 0 THEN {<< >>}
    ELSE UNION {{Append(g, s) : g \in BodyMaps(o, f - 1, k - Len(s))} :
                    s \in BodiesOf(o, f, k)}

\* a closure is declared inside an earlier declaration
Outers == {o \in [Funcs -> {Nil} \cup Funcs] : \A f \in Funcs : o[f] < f}

(* --------------------------- pure operators ----------------------------- *)
\* v.visitgen++ on a uint32
Incr(x) == (x + 1) % (2^CounterBits)

\* Lower with the comparison lost: the callee's value never lowers min
Lower_Never(min, m) == min

\* if m := v.visit(...); m < min { min = m }
Lower(min, m) == IF m < min THEN m ELSE min

\* IsRoot with the case min == id+1 lost
IsRoot_IdOnly(n, id, min) == min = id /\ ~IsHiddenClosure(n)

\* IsRoot without the test for a hidden closure
IsRoot_AnyNode(n, id, min) == min = id \/ min = Incr(id)

\* (min == id || min == id+1) && !n.IsHiddenClosure()
IsRoot(n, id, min) == (min = id \/ min = Incr(id)) /\ ~IsHiddenClosure(n)

\* Recursive testing the seed of min instead of the function's own ordinal
Recursive_Seed(id, min) == min = Incr(id)

\* recursive := min == id
Recursive(id, min) == min = id

\* StackIndex with the break lost: the loop runs down to the bottom entry
StackIndex_Bottom(s, n, i) == IF i = 0 THEN 0 ELSE 1

\* the index i at which the loop of lines 135-142 stops: the topmost
\* position of n on the stack, or 0 (the loop ran off the bottom at -1,
\* which in the source makes v.stack[i:] panic)
RECURSIVE StackIndex(_, _, _)
StackIndex(s, n, i) ==
    IF i = 0 THEN 0
    ELSE IF s[i] = n THEN i
    ELSE StackIndex(s, n, i - 1)

\* Block off by one: the slice starts above n
Block_AboveRoot(s, i) == SubSeq(s, i + 1, Len(s))

\* block := v.stack[i:]
Block(s, i) == SubSeq(s, i, Len(s))

\* Finalize leaving the ordinals of the block as they are
Finalize_Keep(ids, blk) == ids

\* Finalize marking only the root of the component
Finalize_RootOnly(ids, blk) == [ids EXCEPT ![blk[1]] = Sentinel]

\* Finalize deleting the map entries of the block
Finalize_Delete(ids, blk) ==
    [f \in Funcs |-> IF \E j \in 1..Len(blk) : blk[j] = f THEN 0 ELSE ids[f]]

\* v.nodeID[x] = ^uint32(0) for every x of the block
Finalize(ids, blk) ==
    [f \in Funcs |-> IF \E j \in 1..Len(blk) : blk[j] = f THEN Sentinel ELSE ids[f]]

Top == frames[Len(frames)]

\* NewFrame with the second visitgen++ lost: min starts at id
NewFrame_SeedId(n) ==
    [n |-> n, id |-> Incr(visitgen), min |-> Incr(visitgen), i |-> 1, at |-> "visit"]

\* the frame of a visit that has just passed line 79
NewFrame(n) ==
    [n |-> n, id |-> Incr(visitgen), min |-> Incr(Incr(visitgen)), i |-> 1, at |-> "visit"]

\* the capacity of v.stack: the length of its backing array
Cap == IF stackArr = 0 THEN 0 ELSE Len(arrays[stackArr])

\* v.stack = append(v.stack, n) on the backing arrays: n is written into
\* the next slot of the current array when the capacity allows it, else a
\* new array of twice the capacity (of one slot for a nil slice) is
\* allocated, the elements are copied and the old array is left as it is
AppendStack(n) ==
    IF Len(stack) < Cap
    THEN /\ arrays' = [arrays EXCEPT ![stackArr][Len(stack) + 1] = n]
         /\ UNCHANGED stackArr
    ELSE /\ arrays' = Append(arrays,
                [j \in 1..(IF Cap = 0 THEN 1 ELSE 2 * Cap) |->
                    IF j <= Len(stack) THEN stack[j]
                    ELSE IF j = Len(stack) + 1 THEN n ELSE Nil])
         /\ stackArr' = Len(arrays) + 1

\* Enter with one visitgen++ only: id and the seed of min share a number
Enter_OneIncr(n) ==
    /\ visitgen' = Incr(visitgen)
    /\ nodeID' = [nodeID EXCEPT ![n] = Incr(visitgen)]
    /\ stack' = Append(stack, n)
    /\ AppendStack(n)

\* Enter with the map update lost: the function stays unvisited
Enter_NoRecord(n) ==
    /\ visitgen' = Incr(Incr(visitgen))
    /\ UNCHANGED nodeID
    /\ stack' = Append(stack, n)
    /\ AppendStack(n)

\* Enter recording the seed of min (n+1) as the ordinal of n
Enter_RecordMin(n) ==
    /\ visitgen' = Incr(Incr(visitgen))
    /\ nodeID' = [nodeID EXCEPT ![n] = Incr(Incr(visitgen))]
    /\ stack' = Append(stack, n)
    /\ AppendStack(n)

\* lines 74-79: the first visit of n
Enter(n) ==
    /\ visitgen' = Incr(Incr(visitgen))
    /\ nodeID' = [nodeID EXCEPT ![n] = Incr(visitgen)]
    /\ stack' = Append(stack, n)
    /\ AppendStack(n)

(* --------------------- package objabi: experiments ---------------------- *)
(* A string is a sequence of atoms; an atom is a run of characters that the
   code never looks into.  "none" is <<"no", "ne">> and "noregabi" is
   <<"no", "regabi">>, so HasPrefix(f, "no") and f[2:] work on the atoms. *)

\* the fields of goexperiment.Flags that the code names, in the order of
\* exp.go:77-82
FieldOrder ==
    << <<"Regabi">>, <<"Regabi", "Wrappers">>, <<"Regabi", "G">>,
       <<"Regabi", "Reflect">>, <<"Regabi", "Defer">>, <<"Regabi", "Args">> >>

Fields == {FieldOrder[i] : i \in DOMAIN FieldOrder}

Regabi == FieldOrder[1]
RegabiWrappers == FieldOrder[2]
RegabiG == FieldOrder[3]
RegabiReflect == FieldOrder[4]
RegabiDefer == FieldOrder[5]
RegabiArgs == FieldOrder[6]

\* the values of goexperiment.Flags
Flags == [Fields -> BOOLEAN]

\* strings.ToLower on one atom
LowerAtom(a) ==
    CASE a = "Regabi" -> "regabi"
      [] a = "Wrappers" -> "wrappers"
      [] a = "G" -> "g"
      [] a = "Reflect" -> "reflect"
      [] a = "Defer" -> "defer"
      [] a = "Args" -> "args"
      [] OTHER -> a

\* strings.ToLower
ToLower(s) == [j \in 1..Len(s) |-> LowerAtom(s[j])]

\* the map of known experiment names built by init: lower-cased field name
\* to field
names == [nm \in {ToLower(fld) : fld \in Fields} |->
            CHOOSE fld \in Fields : ToLower(fld) = nm]

\* strings.Split(s, ",")
RECURSIVE Split(_)
Split(s) ==
    IF \A j \in 1..Len(s) : s[j] # ","
    THEN <<s>>
    ELSE LET k == CHOOSE j \in 1..Len(s) :
                    s[j] = "," /\ \A m \in 1..(j - 1) : s[m] # ","
         IN  <<SubSeq(s, 1, k - 1)>> \o Split(SubSeq(s, k + 1, Len(s)))

\* strings.Join(list, ",")
RECURSIVE Join(_)
Join(list) ==
    IF list = << >> THEN << >>
    ELSE IF Len(list) = 1 THEN list[1]
    ELSE list[1] \o <<",">> \o Join(Tail(list))

\* the entry "none"
None == <<"no", "ne">>

\* strings.HasPrefix(f, "no")
HasPrefixNo(f) == f # << >> /\ f[1] = "no"

\* a "none" entry clearing every flag instead of restoring the baseline
ResetFlags_Zero(base) == [fld \in Fields |-> FALSE]

\* what a "none" entry assigns to Experiment
ResetFlags(base) == base

\* one iteration of the loop over the entries: the flags after entry f, and
\* whether the entry made the process exit
ParseEntry(exp, base, f) ==
    IF f = << >> THEN [exp |-> exp, exit |-> FALSE]
    ELSE IF f = None THEN [exp |-> ResetFlags(base), exit |-> FALSE]
    ELSE LET val == ~HasPrefixNo(f)
             g == IF HasPrefixNo(f) THEN Tail(f) ELSE f
         IN  IF g \notin DOMAIN names
             THEN [exp |-> exp, exit |-> TRUE]
             ELSE [exp |-> [exp EXCEPT ![names[g]] = val], exit |-> FALSE]

\* the whole loop over the entries
RECURSIVE ParseAll(_, _, _)
ParseAll(exp, base, list) ==
    IF list = << >> THEN [exp |-> exp, exit |-> FALSE]
    ELSE LET r == ParseEntry(exp, base, Head(list))
         IN  IF r.exit THEN r ELSE ParseAll(r.exp, base, Tail(list))

\* Adjust without the test of GOARCH: regabi is kept on every architecture
Adjust_AnyArch(exp, arch) ==
    IF exp[Regabi]
    THEN [exp EXCEPT ![RegabiWrappers] = TRUE, ![RegabiG] = TRUE,
                     ![RegabiReflect] = TRUE, ![RegabiDefer] = TRUE]
    ELSE exp

\* the regabi adjustments
Adjust(exp, arch) ==
    LET a == IF arch # "amd64"
             THEN [exp EXCEPT ![Regabi] = FALSE, ![RegabiWrappers] = FALSE,
                              ![RegabiG] = FALSE, ![RegabiReflect] = FALSE,
                              ![RegabiDefer] = FALSE, ![RegabiArgs] = FALSE]
             ELSE exp
    IN  IF a[Regabi]
        THEN [a EXCEPT ![RegabiWrappers] = TRUE, ![RegabiG] = TRUE,
                       ![RegabiReflect] = TRUE, ![RegabiDefer] = TRUE]
        ELSE a

\* the regabi dependency checks: TRUE when init panics
Panics(exp) ==
    \/ exp[RegabiG] /\ ~exp[RegabiWrappers]
    \/ exp[RegabiArgs] /\ ~(exp[RegabiWrappers] /\ exp[RegabiG]
                             /\ exp[RegabiReflect] /\ exp[RegabiDefer])

\* init as a whole, from a baseline, an environment string and a GOARCH
InitFrom(base, e, arch) ==
    LET p == IF e # << >> THEN ParseAll(base, base, Split(e))
             ELSE [exp |-> base, exit |-> FALSE]
        a == Adjust(p.exp, arch)
    IN  IF p.exit THEN [ipc |-> "exit", exp |-> p.exp]
        ELSE IF Panics(a) THEN [ipc |-> "panic", exp |-> a]
        ELSE [ipc |-> "done", exp |-> a]

\* expList writing the bare name also for a flag that is off
ExpName_Plain(nm, val) == nm

\* the entry expList writes for a flag that differs from the base
ExpName(nm, val) == IF val THEN nm ELSE <<"no">> \o nm

RECURSIVE expListFrom(_, _, _)
expListFrom(exp, base, i) ==
    IF i > Len(FieldOrder) THEN << >>
    ELSE LET fld == FieldOrder[i]
         IN  (IF exp[fld] # base[fld]
              THEN <<ExpName(ToLower(fld), exp[fld])>> ELSE << >>)
             \o expListFrom(exp, base, i + 1)

expList(exp, base) == expListFrom(exp, base, 1)

GOEXPERIMENT == Join(expList(Experiment, BaselineFlags))

\* the entries a GOEXPERIMENT string is made of here
Tokens ==
    {<< >>, None, <<"bogus">>, <<"no">>}
        \cup DOMAIN names \cup {<<"no">> \o nm : nm \in DOMAIN names}

RECURSIVE TokenLists(_)
TokenLists(k) ==
    IF k = 0 THEN {<< >>}
    ELSE LET shorter == TokenLists(k - 1)
         IN  shorter \cup {<<t>> \o l : t \in Tokens,
                                        l \in {x \in shorter : Len(x) = k - 1}}

\* package objabi not running, for the runs of visitBottomUp
ExpIdle ==
    /\ GOARCH = "amd64"
    /\ BaselineFlags = [fld \in Fields |-> FALSE]
    /\ env = << >>
    /\ entries = << >>
    /\ Experiment = [fld \in Fields |-> FALSE]
    /\ ipc = "idle"

(* ------------------------------- Init ----------------------------------- *)
Init ==
    /\ outer \in Outers
    /\ body \in BodyMaps(outer, NumFuncs, MaxRefs)
    /\ listed = 0
    /\ extras = 0
    /\ pc = "loop"
    /\ visitgen = 0
    /\ nodeID = [f \in Funcs |-> 0]
    /\ stack = << >>
    /\ frames = << >>
    /\ calls = << >>
    /\ arrays = << >>
    /\ stackArr = 0
    /\ ExpIdle

(* --------------------------- visitBottomUp ------------------------------ *)
\* The list holds the declarations in declaration order, 1..listed of them
\* consumed so far, and between them up to MaxExtra extra entries: entries
\* that are no ODCLFUNC (Nil) and declarations that were listed before.
NextDecl == IF listed < NumFuncs THEN {listed + 1} ELSE {}
Repeats == IF extras < MaxExtra THEN {Nil} \cup (1..listed) ELSE {}
NextEntries == NextDecl \cup Repeats

\* for _, n := range list: entry e is taken from the list
Consume(e) ==
    IF e = listed + 1
    THEN listed' = listed + 1 /\ UNCHANGED extras
    ELSE extras' = extras + 1 /\ UNCHANGED listed

\* IsSkipped without the test for a hidden closure
IsSkipped_FuncOnly(e) == e = Nil

\* n.Op() != ir.ODCLFUNC || n.Func().IsHiddenClosure(): lines 59 and 61
IsSkipped(e) == IF e = Nil THEN TRUE ELSE IsHiddenClosure(e)

\* lines 58-65, an entry that is no ODCLFUNC or is a hidden closure
EntrySkip ==
    /\ pc = "loop" /\ frames = << >>
    /\ \E e \in NextEntries :
        /\ IsSkipped(e)
        /\ Consume(e)
    /\ UNCHANGED <<expVars, arrays, stackArr, outer, body, pc, visitgen, nodeID, stack, frames, calls>>

\* line 62 and lines 69-72: the entry was visited before, visit returns at once
EntryVisited ==
    /\ pc = "loop" /\ frames = << >>
    /\ \E e \in NextEntries :
        /\ ~IsSkipped(e)
        /\ nodeID[e] > 0
        /\ Consume(e)
    /\ UNCHANGED <<expVars, arrays, stackArr, outer, body, pc, visitgen, nodeID, stack, frames, calls>>

\* line 62 and lines 74-79: the entry is visited for the first time
EntryDescend ==
    /\ pc = "loop" /\ frames = << >>
    /\ \E e \in NextEntries :
        /\ ~IsSkipped(e)
        /\ nodeID[e] = 0
        /\ Consume(e)
        /\ Enter(e)
        /\ frames' = <<NewFrame(e)>>
    /\ UNCHANGED <<expVars, outer, body, pc, calls>>

\* line 66: the list is exhausted
Finish ==
    /\ pc = "loop" /\ frames = << >>
    /\ pc' = "done"
    /\ UNCHANGED <<expVars, arrays, stackArr, outer, body, listed, extras, visitgen, nodeID, stack, frames, calls>>

(* ------------------------------- visit ---------------------------------- *)
AtRef == frames # << >> /\ Top.at = "visit" /\ Top.i <= Len(body[Top.n])

\* RefUnresolved taking the zero ordinal of a missing map entry for the
\* value of the callee
RefUnresolved_AsZero ==
    /\ AtRef
    /\ body[Top.n][Top.i] = Nil
    /\ frames' = [frames EXCEPT ![Len(frames)].i = @ + 1,
                                ![Len(frames)].min = Lower(@, 0)]
    /\ UNCHANGED <<expVars, arrays, stackArr, outer, body, listed, extras, pc, visitgen, nodeID, stack, calls>>

\* lines 85, 93, 100, 108: the reference has no Defn
RefUnresolved ==
    /\ AtRef
    /\ body[Top.n][Top.i] = Nil
    /\ frames' = [frames EXCEPT ![Len(frames)].i = @ + 1]
    /\ UNCHANGED <<expVars, arrays, stackArr, outer, body, listed, extras, pc, visitgen, nodeID, stack, calls>>

\* RefVisited dropping the value an already visited callee returns
RefVisited_DropID ==
    /\ AtRef
    /\ LET t == body[Top.n][Top.i] IN
        /\ t # Nil
        /\ nodeID[t] > 0
        /\ frames' = [frames EXCEPT ![Len(frames)].i = @ + 1]
    /\ UNCHANGED <<expVars, arrays, stackArr, outer, body, listed, extras, pc, visitgen, nodeID, stack, calls>>

\* lines 69-72 in the callee, then m < min in the caller
RefVisited ==
    /\ AtRef
    /\ LET t == body[Top.n][Top.i] IN
        /\ t # Nil
        /\ nodeID[t] > 0
        /\ frames' = [frames EXCEPT ![Len(frames)].i = @ + 1,
                                    ![Len(frames)].min = Lower(@, nodeID[t])]
    /\ UNCHANGED <<expVars, arrays, stackArr, outer, body, listed, extras, pc, visitgen, nodeID, stack, calls>>

\* lines 74-79 in the callee
RefDescend ==
    /\ AtRef
    /\ LET t == body[Top.n][Top.i] IN
        /\ t # Nil
        /\ nodeID[t] = 0
        /\ Enter(t)
        /\ frames' = Append(frames, NewFrame(t))
    /\ UNCHANGED <<expVars, outer, body, listed, extras, pc, calls>>

AtTest == frames # << >> /\ Top.at = "visit" /\ Top.i > Len(body[Top.n])

\* lines 122-148: n is the root of a component
Close ==
    /\ AtTest
    /\ IsRoot(Top.n, Top.id, Top.min)
    /\ LET i == StackIndex(stack, Top.n, Len(stack)) IN
        /\ i > 0
        /\ nodeID' = Finalize(nodeID, Block(stack, i))
        /\ stack' = SubSeq(stack, 1, i - 1)
        /\ calls' = Append(calls, [block |-> Block(stack, i),
                                   recursive |-> Recursive(Top.id, Top.min),
                                   arr |-> stackArr, off |-> i])
    /\ frames' = [frames EXCEPT ![Len(frames)].at = "ret"]
    /\ UNCHANGED <<expVars, arrays, stackArr, outer, body, listed, extras, pc, visitgen>>

\* line 122, condition false
NoClose ==
    /\ AtTest
    /\ ~IsRoot(Top.n, Top.id, Top.min)
    /\ frames' = [frames EXCEPT ![Len(frames)].at = "ret"]
    /\ UNCHANGED <<expVars, arrays, stackArr, outer, body, listed, extras, pc, visitgen, nodeID, stack, calls>>

\* Return dropping the value: the caller's min is not lowered
Return_DropMin ==
    /\ frames # << >> /\ Top.at = "ret"
    /\ LET k == Len(frames) IN
        frames' = IF k = 1 THEN << >>
                  ELSE [SubSeq(frames, 1, k - 1) EXCEPT ![k - 1].i = @ + 1]
    /\ UNCHANGED <<expVars, arrays, stackArr, outer, body, listed, extras, pc, visitgen, nodeID, stack, calls>>

\* line 150, and m < min in the caller (lines 86, 94, 101, 109, 116); the
\* value returned to visitBottomUp is dropped
Return ==
    /\ frames # << >> /\ Top.at = "ret"
    /\ LET k == Len(frames) IN
        frames' = IF k = 1 THEN << >>
                  ELSE [SubSeq(frames, 1, k - 1) EXCEPT
                            ![k - 1].i = @ + 1,
                            ![k - 1].min = Lower(@, Top.min)]
    /\ UNCHANGED <<expVars, arrays, stackArr, outer, body, listed, extras, pc, visitgen, nodeID, stack, calls>>

Next ==
    \/ EntrySkip
    \/ EntryVisited
    \/ EntryDescend
    \/ Finish
    \/ RefUnresolved
    \/ RefVisited
    \/ RefDescend
    \/ Close
    \/ NoClose
    \/ Return

Spec == Init /\ [][Next]_vars

(* ----------------------- irregular call graphs --------------------------- *)
\* the bodies of at most k references, each to no declaration or to any
\* function at all, closures of other functions included
AnyBodiesOf(k) == UNION {[1..n -> {Nil} \cup Funcs] : n \in 0..k}

RECURSIVE AnyBodyMaps(_, _)
AnyBodyMaps(f, k) ==
    IF f = 0 THEN {<< >>}
    ELSE UNION {{Append(g, s) : g \in AnyBodyMaps(f - 1, k - Len(s))} :
                    s \in AnyBodiesOf(k)}

\* the start of visitBottomUp over a call graph of any shape
InitAny ==
    /\ outer \in Outers
    /\ body \in AnyBodyMaps(NumFuncs, MaxRefs)
    /\ listed = 0
    /\ extras = 0
    /\ pc = "loop"
    /\ visitgen = 0
    /\ nodeID = [f \in Funcs |-> 0]
    /\ stack = << >>
    /\ frames = << >>
    /\ calls = << >>
    /\ arrays = << >>
    /\ stackArr = 0
    /\ ExpIdle

SpecAny == InitAny /\ [][Next]_vars

(* -------------------------- init of package objabi ---------------------- *)
\* visitBottomUp not running, for the runs of init
SccIdle ==
    /\ outer = [f \in Funcs |-> Nil]
    /\ body = [f \in Funcs |-> << >>]
    /\ listed = NumFuncs
    /\ extras = MaxExtra
    /\ pc = "done"
    /\ visitgen = 0
    /\ nodeID = [f \in Funcs |-> 0]
    /\ stack = << >>
    /\ frames = << >>
    /\ calls = << >>
    /\ arrays = << >>
    /\ stackArr = 0

sccVars == <<outer, body, listed, extras, pc, visitgen, nodeID, stack, frames,
             calls, arrays, stackArr>>

\* init up to the loop over the entries: Experiment is the baseline and the
\* environment string, when not empty, is split
InitExp ==
    /\ SccIdle
    /\ GOARCH \in {"amd64", "arm64"}
    /\ BaselineFlags \in Flags
    /\ env \in {Join(l) : l \in TokenLists(MaxEntries)}
    /\ entries = IF env # << >> THEN Split(env) ELSE << >>
    /\ Experiment = BaselineFlags
    /\ ipc = "parse"

\* an empty entry is skipped
ParseEmpty ==
    /\ ipc = "parse" /\ entries # << >>
    /\ Head(entries) = << >>
    /\ entries' = Tail(entries)
    /\ UNCHANGED <<sccVars, GOARCH, BaselineFlags, env, Experiment, ipc>>

\* "none" restores the baseline
ParseNone ==
    /\ ipc = "parse" /\ entries # << >>
    /\ Head(entries) = None
    /\ Experiment' = ParseEntry(Experiment, BaselineFlags, Head(entries)).exp
    /\ entries' = Tail(entries)
    /\ UNCHANGED <<sccVars, GOARCH, BaselineFlags, env, ipc>>

\* a known name, with or without "no", sets its flag
ParseFlag ==
    /\ ipc = "parse" /\ entries # << >>
    /\ Head(entries) \notin {<< >>, None}
    /\ ~ParseEntry(Experiment, BaselineFlags, Head(entries)).exit
    /\ Experiment' = ParseEntry(Experiment, BaselineFlags, Head(entries)).exp
    /\ entries' = Tail(entries)
    /\ UNCHANGED <<sccVars, GOARCH, BaselineFlags, env, ipc>>

\* an unknown name: os.Exit(2)
ParseUnknown ==
    /\ ipc = "parse" /\ entries # << >>
    /\ Head(entries) \notin {<< >>, None}
    /\ ParseEntry(Experiment, BaselineFlags, Head(entries)).exit
    /\ ipc' = "exit"
    /\ UNCHANGED <<sccVars, GOARCH, BaselineFlags, env, entries, Experiment>>

\* after the loop: the regabi adjustments
AdjustRegabi ==
    /\ ipc = "parse" /\ entries = << >>
    /\ Experiment' = Adjust(Experiment, GOARCH)
    /\ ipc' = "check"
    /\ UNCHANGED <<sccVars, GOARCH, BaselineFlags, env, entries>>

\* a regabi dependency is not met: panic
CheckPanic ==
    /\ ipc = "check"
    /\ Panics(Experiment)
    /\ ipc' = "panic"
    /\ UNCHANGED <<sccVars, GOARCH, BaselineFlags, env, entries, Experiment>>

\* the dependencies are met: init returns
CheckDone ==
    /\ ipc = "check"
    /\ ~Panics(Experiment)
    /\ ipc' = "done"
    /\ UNCHANGED <<sccVars, GOARCH, BaselineFlags, env, entries, Experiment>>

NextExp ==
    \/ ParseEmpty
    \/ ParseNone
    \/ ParseFlag
    \/ ParseUnknown
    \/ AdjustRegabi
    \/ CheckPanic
    \/ CheckDone

SpecExp == InitExp /\ [][NextExp]_vars

(* ------------------------- the static call graph ------------------------ *)
\* the statically resolved call targets of f: direct calls, resolved method
\* references and nested closures
Targets(f) == {body[f][i] : i \in 1..Len(body[f])} \ {Nil}

\* the functions reachable from those of S along resolved edges, S included
RECURSIVE ReachFrom(_)
ReachFrom(S) ==
    LET T == S \cup UNION {Targets(f) : f \in S}
    IN  IF T = S THEN S ELSE ReachFrom(T)

\* a path of one or more resolved edges leads from a to b
Reaches(a, b) == b \in ReachFrom(Targets(a))

\* a and b lie on a common cycle of the call graph
Mutual(a, b) == Reaches(a, b) /\ Reaches(b, a)

\* the nearest lexically enclosing function of f that is not a closure
RECURSIVE Enclosing(_)
Enclosing(f) == IF outer[f] = Nil THEN f ELSE Enclosing(outer[f])

\* the targets of f in the call graph extended by an edge from every
\* closure to the declaration it is nested in
TargetsUp(f) == Targets(f) \cup (IF outer[f] = Nil THEN {} ELSE {outer[f]})

RECURSIVE ReachFromUp(_)
ReachFromUp(S) ==
    LET T == S \cup UNION {TargetsUp(f) : f \in S}
    IN  IF T = S THEN S ELSE ReachFromUp(T)

\* the strongly connected component of f in the extended graph
ComponentUp(f) == {g \in ReachFromUp({f}) : f \in ReachFromUp({g})}

\* f together with the closure literals met in f and, transitively, in
\* those closures
RECURSIVE Nested(_)
Nested(S) ==
    LET T == S \cup UNION {Targets(c) \cap Kids(outer, c) : c \in S}
    IN  IF T = S THEN S ELSE Nested(T)

\* the closures of f that the call graph holds
ClosuresOf(f) == Nested({f}) \ {f}

\* the functions visitBottomUp has started a traversal at or found visited
Roots == {f \in 1..listed : ~IsHiddenClosure(f)}

\* the functions on the list of an analyze invocation
Members(c) == {c.block[j] : j \in 1..Len(c.block)}

\* the functions passed to analyze so far
Passed == UNION {Members(calls[k]) : k \in 1..Len(calls)}

\* how many times f has been passed to analyze
Occurrences(f) ==
    Cardinality(UNION {{<<k, j>> : j \in {j \in 1..Len(calls[k].block) :
                                            calls[k].block[j] = f}} :
                          k \in 1..Len(calls)})

\* the invocations of analyze whose list holds f
CallsWith(f) == {k \in 1..Len(calls) : f \in Members(calls[k])}


(* ------------------------------ properties ------------------------------ *)
\* C1: bottom-up order.  Whenever analyze has been invoked with a list,
\* every function reachable along resolved edges from a function on that
\* list (its direct targets and, transitively, theirs) is on the same list
\* or on a list passed to an earlier invocation.
C1_BottomUp ==
    \A k \in 1..Len(calls) : \A f \in Members(calls[k]) :
        \A t \in ReachFrom(Targets(f)) : \E j \in 1..k : t \in Members(calls[j])

\* a later list calls, through a closure, into an earlier one
C1_Witness ==
    /\ Len(calls) >= 2
    /\ \E f \in Members(calls[2]), t \in Members(calls[1]) :
        IsHiddenClosure(f) /\ t \in Targets(f)

\* C2: every function reachable from the non-closure roots is passed to
\* analyze exactly once before visitBottomUp returns; no function is passed
\* twice (on two lists or twice on one) and no unreachable one is passed.
C2_ExactlyOnce ==
    /\ \A f \in Funcs : Occurrences(f) <= 1
    /\ Passed \subseteq ReachFrom(Roots)
    /\ pc = "done" => \A f \in ReachFrom(Roots) : Occurrences(f) = 1

\* visitBottomUp has returned, a closure was passed on a list of several
\* lists, and some function was unreachable
C2_Witness ==
    /\ pc = "done"
    /\ Len(calls) >= 2
    /\ \E f \in Passed : IsHiddenClosure(f)
    /\ Passed # Funcs

\* C3: a closure passed to analyze is on the same list as its nearest
\* enclosing function that is not a closure.
C3_ClosureWithOuter ==
    \A k \in 1..Len(calls) : \A f \in Members(calls[k]) :
        IsHiddenClosure(f) => Enclosing(f) \in Members(calls[k])

\* a closure nested in a closure, calling another function, was passed
C3_Witness ==
    \E k \in 1..Len(calls) : \E f \in Members(calls[k]) :
        /\ IsHiddenClosure(f) /\ IsHiddenClosure(outer[f])
        /\ Targets(f) # {}

\* C4 as stated: every list is a maximal set of mutually reachable nodes
\* of the call graph of resolved edges.
C4_Original ==
    \A k \in 1..Len(calls) : \A a \in Members(calls[k]) :
        \A b \in Funcs \ {a} : (b \in Members(calls[k])) <=> Mutual(a, b)

\* C4 amended: every list is a maximal set of mutually reachable nodes of
\* the call graph extended by an edge from each closure to the declaration
\* it is nested in.
C4_ComponentUp ==
    \A k \in 1..Len(calls) : \A a \in Members(calls[k]) :
        Members(calls[k]) = ComponentUp(a)

\* a list of two functions and a closure that calls none of them back
C4_Witness ==
    \E k \in 1..Len(calls) :
        /\ Cardinality(Roots \cap Members(calls[k])) >= 2
        /\ \E c \in Members(calls[k]) : IsHiddenClosure(c) /\ Targets(c) = {}

\* the two requirements on a list M and what precedes it, for a part S of
\* M reported first and the rest after it: S calls nothing of the rest, and
\* each closure is in the part of the declaration it is nested in
CanSplit(M, S) ==
    /\ \A f \in S : Targets(f) \cap (M \ S) = {}
    /\ \A c \in M : outer[c] \in M => (c \in S <=> outer[c] \in S)

\* C5: the lists are as short as possible.  Two distinct functions on one
\* list that are not closures are mutually reachable in the call graph, and
\* no list splits into two non-empty lists that keep callees first and
\* closures with their outer functions.
C5_Minimal ==
    \A k \in 1..Len(calls) :
        LET M == Members(calls[k]) IN
        /\ \A a, b \in M :
            (a # b /\ ~IsHiddenClosure(a) /\ ~IsHiddenClosure(b)) => Mutual(a, b)
        /\ \A S \in SUBSET M : (S # {} /\ S # M) => ~CanSplit(M, S)

\* a list of two functions that reach each other only through a closure
C5_Witness ==
    \E k \in 1..Len(calls) : \E a, b \in Members(calls[k]) :
        /\ a # b /\ ~IsHiddenClosure(a) /\ ~IsHiddenClosure(b)
        /\ b \notin Targets(a)
        /\ \E c \in ClosuresOf(a) : b \in Targets(c)

\* C6: a list passed with recursive == false holds exactly one function
\* that is not a closure, and otherwise only closures of that function.
C6_NonRecursive ==
    \A k \in 1..Len(calls) :
        ~calls[k].recursive =>
            \E f \in Members(calls[k]) :
                /\ ~IsHiddenClosure(f)
                /\ \A g \in Members(calls[k]) \ {f} :
                    IsHiddenClosure(g) /\ Enclosing(g) = f

\* a non-recursive list with a closure, after a recursive list
C6_Witness ==
    \E k \in 1..Len(calls) :
        /\ ~calls[k].recursive
        /\ Len(calls[k].block) >= 2
        /\ \E j \in 1..Len(calls) : calls[j].recursive

\* C7: two or more functions on a common cycle of the call graph are
\* reported on one list, and it is passed with recursive == true.
C7_CycleRecursive ==
    \A a \in Passed : \A b \in Funcs \ {a} :
        Mutual(a, b) =>
            \A k \in CallsWith(a) : b \in Members(calls[k]) /\ calls[k].recursive

\* a cycle of two functions that goes through a closure was reported
C7_Witness ==
    \E a \in Passed : \E b \in Passed \ {a} :
        /\ ~IsHiddenClosure(a) /\ ~IsHiddenClosure(b)
        /\ Mutual(a, b)
        /\ b \notin Targets(a)
        /\ \E c \in ClosuresOf(a) : b \in Targets(c)

\* F has the one closure C, C calls F, and F is on no other cycle
ClosureBackEdge(F, C) ==
    /\ ~IsHiddenClosure(F)
    /\ F \in Targets(C)
    /\ F \notin Targets(F)
    /\ ClosuresOf(F) = {C}
    /\ \A x \in Funcs \ {F, C} : ~Mutual(F, x)

\* C8: a closure that calls back into its enclosing function forces
\* recursive == true.  For F with the one closure C, where C calls F and F
\* is on no other cycle, exactly one list is emitted for them, it holds F
\* and C and nothing else, and it is passed with recursive == true.
C8_ClosureBackEdge ==
    \A F, C \in Funcs :
        ClosureBackEdge(F, C) =>
            /\ (pc = "done" /\ F \in Roots) => CallsWith(F) # {}
            /\ Cardinality(CallsWith(F) \cup CallsWith(C)) <= 1
            /\ \A k \in CallsWith(F) \cup CallsWith(C) :
                Members(calls[k]) = {F, C} /\ calls[k].recursive

\* such an F, which also calls another function, was reported with C
C8_Witness ==
    \E F, C \in Funcs :
        /\ ClosureBackEdge(F, C)
        /\ Targets(F) # {C}
        /\ CallsWith(F) # {}

\* the closures of F have no external edges and no back-edge to F, and F
\* does not call itself
ClosuresInside(F) ==
    /\ ~IsHiddenClosure(F)
    /\ F \notin Targets(F)
    /\ \A c \in ClosuresOf(F) : Targets(c) \subseteq ClosuresOf(F)

\* F is reported once, as F and all its closures, with recursive == false
PlainUnit(F) ==
    /\ (pc = "done" /\ F \in ReachFrom(Roots)) => CallsWith(F) # {}
    /\ Cardinality(CallsWith(F)) <= 1
    /\ \A k \in CallsWith(F) :
        Members(calls[k]) = {F} \cup ClosuresOf(F) /\ ~calls[k].recursive

\* C9 as stated: a function F whose closures have no external edges and no
\* back-edge to F, and that does not call itself, is reported as one list of
\* F and all its closures with recursive == false.
C9_Original == \A F \in Funcs : ClosuresInside(F) => PlainUnit(F)

\* C9 amended: the same, for an F that is moreover on no cycle of the call
\* graph (no function F calls leads back to F); in particular a function
\* with no outgoing edges and no closures is a non-recursive singleton.
C9_PlainUnit ==
    \A F \in Funcs : (ClosuresInside(F) /\ ~Reaches(F, F)) => PlainUnit(F)

\* a function with two closures and nothing else was reported, and so was
\* a function with no references at all
C9_Witness ==
    /\ \E F \in Funcs :
        /\ ClosuresInside(F) /\ ~Reaches(F, F)
        /\ Cardinality(ClosuresOf(F)) >= 2
        /\ CallsWith(F) # {}
    /\ \E G \in Passed : ~IsHiddenClosure(G) /\ body[G] = << >>

\* C10: a function that calls itself directly, has no closures and is on
\* no other cycle is reported as the singleton list of itself with
\* recursive == true.
C10_SelfRecursive ==
    \A F \in Funcs :
        (/\ ~IsHiddenClosure(F)
         /\ F \in Targets(F)
         /\ ClosuresOf(F) = {}
         /\ \A x \in Funcs \ {F} : ~Mutual(F, x)) =>
            /\ (pc = "done" /\ F \in ReachFrom(Roots)) => CallsWith(F) # {}
            /\ Cardinality(CallsWith(F)) <= 1
            /\ \A k \in CallsWith(F) : calls[k].block = <<F>> /\ calls[k].recursive

\* a list of one function was passed with recursive == true
C10_Witness ==
    \E k \in 1..Len(calls) :
        /\ Len(calls[k].block) = 1
        /\ calls[k].recursive
        /\ calls[k].block[1] \in Targets(calls[k].block[1])

\* no function of the call graph is on a cycle
Acyclic == \A f \in Funcs : ~Reaches(f, f)

\* C11 as stated: for an acyclic call graph every list passed to analyze is
\* a singleton with recursive == false, and for every edge the list with
\* the target is emitted strictly before the list with the source.
C11_Original ==
    Acyclic =>
        \A k \in 1..Len(calls) :
            /\ Len(calls[k].block) = 1 /\ ~calls[k].recursive
            /\ \A f \in Members(calls[k]) : \A t \in Targets(f) :
                \E j \in 1..(k - 1) : t \in Members(calls[j])

\* C11 amended: for an acyclic call graph every list passed to analyze is
\* one function that is not a closure together with closures nested in it,
\* with recursive == false, and for every edge whose target is not a
\* closure nested in the function of the source's list, the list with the
\* target is emitted strictly before the list with the source.
C11_Acyclic ==
    Acyclic =>
        \A k \in 1..Len(calls) :
            /\ ~calls[k].recursive
            /\ \A f, g \in Members(calls[k]) : Enclosing(f) = Enclosing(g)
            /\ \A f \in Members(calls[k]) : \A t \in Targets(f) :
                IF IsHiddenClosure(t) /\ Enclosing(t) = Enclosing(f)
                THEN t \in Members(calls[k])
                ELSE \E j \in 1..(k - 1) : t \in Members(calls[j])

\* an acyclic graph was reported in three lists, one of them with a closure
C11_Witness ==
    /\ Acyclic
    /\ pc = "done"
    /\ Len(calls) = 3
    /\ \E k \in 1..Len(calls) : Len(calls[k].block) = 2
    /\ \A k \in 2..3 : \E f \in Members(calls[k]) :
        Targets(f) \cap Members(calls[k - 1]) # {}

\* the functions of S are not closures and form a simple cycle with no
\* other connections: each refers once, to the next one, and nothing
\* outside S refers into S
SimpleCycle(S) ==
    /\ Cardinality(S) >= 2
    /\ \A f \in S : /\ ~IsHiddenClosure(f)
                    /\ Len(body[f]) = 1
                    /\ body[f][1] \in S \ {f}
                    /\ S \subseteq ReachFrom({f})
    /\ \A g \in Funcs \ S : Targets(g) \cap S = {}

\* C12: functions that are not closures and form a simple cycle with no
\* other connections yield exactly one analyze invocation for them, with
\* exactly the functions of the cycle on the list and recursive == true.
C12_SimpleCycle ==
    \A S \in SUBSET Funcs :
        SimpleCycle(S) =>
            LET K == UNION {CallsWith(f) : f \in S} IN
            /\ (pc = "done" /\ S \cap Roots # {}) => K # {}
            /\ Cardinality(K) <= 1
            /\ \A k \in K : Members(calls[k]) = S /\ calls[k].recursive

\* a cycle of three functions was reported
C12_Witness ==
    \E k \in 1..Len(calls) :
        /\ Len(calls[k].block) = 3
        /\ SimpleCycle(Members(calls[k]))

\* f is on a cycle of the call graph
OnCycle(f) == Reaches(f, f)

\* what the call graph and the set of roots determine, whatever the order
\* of the roots and of the references in a body: one pair for each function
\* reachable from a root, of its component in the extended call graph and
\* whether a function of it that is not a closure is on a cycle
Components ==
    {<<ComponentUp(f), \E g \in ComponentUp(f) : ~IsHiddenClosure(g) /\ OnCycle(g)>> :
        f \in ReachFrom(Roots)}

\* the pairs of member set and recursive flag emitted so far
Emitted == {<<Members(calls[k]), calls[k].recursive>> : k \in 1..Len(calls)}

\* C13: the set of (member set, recursive flag) pairs a run has emitted
\* when visitBottomUp returns is the one the call graph and the set of
\* roots determine; it is the same for every order of the roots and of the
\* call targets in a body.
C13_OrderIndependent == pc = "done" => Emitted = Components

\* a run that met the targets of a body in descending order and emitted
\* the first of them before the second
C13_Witness ==
    /\ pc = "done"
    /\ \E f \in Passed :
        /\ Len(body[f]) = 2
        /\ body[f][1] # Nil /\ body[f][2] # Nil
        /\ body[f][1] > body[f][2]
        /\ \E j, k \in 1..Len(calls) :
            j < k /\ body[f][1] \in Members(calls[j]) /\ body[f][2] \in Members(calls[k])

\* the state of the traversal proper
travVars == <<visitgen, nodeID, stack, frames, calls, arrays, stackArr>>

\* C14: visitBottomUp ignores entries that are no function declarations,
\* starts no traversal at a hidden closure, and a repeated or already
\* visited entry causes no exploration and no analyze call; a closure gets
\* its first ordinal only in a visit called from the visit of the
\* declaration it is nested in, with the visit of its enclosing function in
\* progress.
C14_Roots ==
    [][/\ extras' # extras => UNCHANGED travVars
       /\ (listed' # listed /\ (IsHiddenClosure(listed') \/ nodeID[listed'] # 0))
            => UNCHANGED travVars
       /\ (frames = << >> /\ frames' # << >>)
            => /\ ~IsHiddenClosure(frames'[1].n)
               /\ nodeID[frames'[1].n] = 0
               /\ listed' = frames'[1].n
       /\ \A c \in Funcs :
            (IsHiddenClosure(c) /\ nodeID[c] = 0 /\ nodeID'[c] # 0)
                => /\ frames # << >>
                   /\ Top.n = outer[c]
                   /\ \E j \in 1..Len(frames) : frames[j].n = Enclosing(c)]_vars

\* the loop has taken an extra entry after emitting a list with a closure,
\* and a closure that is in no body was left unvisited
C14_Witness ==
    /\ extras = 1
    /\ \E c \in Passed : IsHiddenClosure(c)
    /\ \E c \in 1..listed : IsHiddenClosure(c) /\ nodeID[c] = 0

\* the ordinals that are neither 0 nor the sentinel
IsReal(x) == x # 0 /\ x # Sentinel

\* C20: the recorded ordinal of a function only moves from 0 to a real
\* ordinal and from a real ordinal to the sentinel: it is never reset to 0,
\* a real ordinal is never replaced by another one, and the sentinel stays.
C20_OrdinalMoves ==
    [][\A f \in Funcs :
        \/ nodeID'[f] = nodeID[f]
        \/ nodeID[f] = 0 /\ IsReal(nodeID'[f])
        \/ IsReal(nodeID[f]) /\ nodeID'[f] = Sentinel]_vars

\* one function is unvisited, one has a real ordinal, one the sentinel
C20_Witness ==
    \E f, g, h \in Funcs :
        nodeID[f] = 0 /\ IsReal(nodeID[g]) /\ nodeID[h] = Sentinel


\* the elements v.stack holds are those of its backing array
StackInArray ==
    stack = IF stackArr = 0 THEN << >>
            ELSE SubSeq(arrays[stackArr], 1, Len(stack))

\* what the list passed by the k-th invocation of analyze reads now: the
\* slice v.stack[i:] of that time, read from the backing array it shares
ListNow(k) ==
    SubSeq(arrays[calls[k].arr], calls[k].off,
           calls[k].off + Len(calls[k].block) - 1)

\* C17: after analyze returns the core keeps no reference to the list it
\* passed: at every later point of the traversal, every list handed to an
\* earlier invocation of analyze still has the contents it was passed with.
C17_ListsKept ==
    \A k \in 1..Len(calls) : ListNow(k) = calls[k].block

\* C18: GOEXPERIMENT() is what a user would set to get the current
\* experiments: whenever init has completed, init run again on the string
\* GOEXPERIMENT() returns, from the same baseline and with the same GOARCH,
\* completes without exiting or panicking and yields the same flags.
C18_RoundTrip ==
    ipc = "done" =>
        InitFrom(BaselineFlags, GOEXPERIMENT, GOARCH)
            = [ipc |-> "done", exp |-> Experiment]

\* init has completed with a flag switched on and another switched off
\* against the baseline, so the string has a plain and a "no" entry
C18_Witness ==
    /\ ipc = "done"
    /\ \E on, off \in Fields :
        /\ Experiment[on] /\ ~BaselineFlags[on]
        /\ ~Experiment[off] /\ BaselineFlags[off]
    /\ Len(Split(GOEXPERIMENT)) >= 2

\* the entries after the last "none" of a list (all of it without "none")
AfterLastNone(list) ==
    LET at == {j \in 1..Len(list) : list[j] = None}
    IN  IF at = {} THEN list
        ELSE LET k == CHOOSE j \in at : \A m \in at : m <= j
             IN  SubSeq(list, k + 1, Len(list))

\* the flags a list of known entries without "none" stands for: the
\* last mention of a flag decides it, a flag not mentioned is as in the
\* baseline
LastMention(list) ==
    [fld \in Fields |->
        LET at == {j \in 1..Len(list) :
                    list[j] \in {ToLower(fld), <<"no">> \o ToLower(fld)}}
        IN  IF at = {} THEN BaselineFlags[fld]
            ELSE list[CHOOSE j \in at : \A m \in at : m <= j] = ToLower(fld)]

\* C19: "none" restores the baseline: when the loop over the entries has
\* run to its end (every entry was known), the flags are those of the
\* entries after the last "none" alone, applied left to right to the
\* baseline, empty entries skipped, the last mention of a flag winning.
C19_NoneRestores ==
    (ipc = "parse" /\ entries = << >>) =>
        Experiment = LastMention(AfterLastNone(Split(env)))

\* the loop has run over an entry that changed a flag, then "none", then
\* an entry that changed a flag
C19_Witness ==
    /\ ipc = "parse" /\ entries = << >>
    /\ Len(Split(env)) = 3
    /\ Split(env)[2] = None
    /\ ParseEntry(BaselineFlags, BaselineFlags, Split(env)[1]).exp
            # BaselineFlags
    /\ Experiment # BaselineFlags

\* the bodies with every unresolved reference removed
StripNil(b) == [f \in Funcs |-> SelectSeq(b[f], LAMBDA t : t # Nil)]

\* visit as a function of the traversal state st = [visitgen, nodeID,
\* stack, calls, ret] over bodies b without unresolved references; ret is
\* the value visit returns
RECURSIVE VisitFn(_, _, _)
RECURSIVE VisitRefs(_, _, _, _, _)
VisitFn(b, st, n) ==
    IF st.nodeID[n] # 0 THEN [st EXCEPT !.ret = st.nodeID[n]]
    ELSE LET id == Incr(st.visitgen)
             in == [st EXCEPT !.visitgen = Incr(Incr(st.visitgen)),
                              !.nodeID[n] = id,
                              !.stack = Append(st.stack, n)]
             r == VisitRefs(b, in, n, 1, Incr(id))
             i == StackIndex(r.stack, n, Len(r.stack))
         IN  IF IsRoot(n, id, r.ret)
             THEN [r EXCEPT !.nodeID = Finalize(r.nodeID, Block(r.stack, i)),
                            !.stack = SubSeq(r.stack, 1, i - 1),
                            !.calls = Append(r.calls,
                                [block |-> Block(r.stack, i),
                                 recursive |-> Recursive(id, r.ret)])]
             ELSE r

VisitRefs(b, st, n, j, min) ==
    IF j > Len(b[n]) THEN [st EXCEPT !.ret = min]
    ELSE LET r == VisitFn(b, st, b[n][j])
         IN  VisitRefs(b, r, n, j + 1, Lower(min, r.ret))

\* visitBottomUp over the declarations e..last in order, as a function
RECURSIVE RunFrom(_, _, _, _)
RunFrom(b, st, e, last) ==
    IF e > last THEN st
    ELSE RunFrom(b, IF IsHiddenClosure(e) THEN st ELSE VisitFn(b, st, e),
                 e + 1, last)

\* the invocations of analyze of a run over the declarations 1..last with
\* the bodies b
RunCalls(b, last) ==
    RunFrom(b, [visitgen |-> 0, nodeID |-> [f \in Funcs |-> 0],
                stack |-> << >>, calls |-> << >>, ret |-> 0], 1, last).calls

\* the invocations of analyze so far: the list and the flag of each
Analyzed ==
    [k \in 1..Len(calls) |->
        [block |-> calls[k].block, recursive |-> calls[k].recursive]]

\* C16: an unresolved reference contributes no edge and causes no error:
\* a finished run has made exactly the invocations of analyze, in the same
\* order, that the run over the same list makes on the bodies with the
\* unresolved references removed, and at every point a visited function is
\* in the list or reachable from a listed non-closure function through
\* resolved references.
C16_Unresolved ==
    /\ pc = "done" => Analyzed = RunCalls(StripNil(body), listed)
    /\ \A f \in Funcs : nodeID[f] # 0 =>
            \E r \in 1..listed :
                ~IsHiddenClosure(r) /\ f \in ReachFrom({r})

\* a finished run over bodies with an unresolved reference followed by a
\* resolved one, some function having stayed unvisited
C16_Witness ==
    /\ pc = "done"
    /\ \E f \in Funcs : \E j \in 1..Len(body[f]) :
            /\ nodeID[f] # 0
            /\ body[f][j] = Nil
            /\ j < Len(body[f]) /\ body[f][j + 1] # Nil
    /\ \E f \in Funcs : nodeID[f] = 0
    /\ Len(calls) >= 2

\* the steps a call of visit still has to take: one for each reference not
\* yet explored, the test of line 122 and the return
FrameSteps(fr) ==
    IF fr.at = "visit" THEN (Len(body[fr.n]) - fr.i + 1) + 2 ELSE 1

RECURSIVE SumSteps(_)
SumSteps(S) ==
    IF S = {} THEN 0
    ELSE LET f == CHOOSE x \in S : TRUE
         IN  (Len(body[f]) + 3) + SumSteps(S \ {f})

RECURSIVE SumFrames(_)
SumFrames(k) == IF k = 0 THEN 0 ELSE FrameSteps(frames[k]) + SumFrames(k - 1)

\* a bound on the steps left: the end of the loop, the entries of the list
\* not yet consumed, the whole visit of every function with no recorded
\* ordinal and the rest of every active visit
StepsLeft ==
    (IF pc = "loop" THEN 1 ELSE 0)
    + (NumFuncs - listed) + (MaxExtra - extras)
    + SumSteps({f \in Funcs : nodeID[f] = 0})
    + SumFrames(Len(frames))

\* C15: visitBottomUp terminates on every finite call graph, cycles,
\* self-loops and references to closures from any function included: until
\* it has returned a step is always possible, every step lowers the bound
\* StepsLeft, which is never negative, and a visit is entered only for a
\* function with no recorded ordinal, which then has one.
C15_Terminates ==
    /\ [](StepsLeft >= 0 /\ (pc = "done" \/ ENABLED Next))
    /\ [][/\ StepsLeft' < StepsLeft
          /\ Len(frames') > Len(frames) =>
                /\ nodeID[frames'[Len(frames')].n] = 0
                /\ nodeID'[frames'[Len(frames')].n] # 0]_vars

\* visitBottomUp has returned from a graph with a cycle through a closure
\* that another function than its enclosing one refers to, and with a
\* self-loop
C15_Witness ==
    /\ pc = "done"
    /\ \E f, c \in Funcs :
        /\ IsHiddenClosure(c) /\ outer[c] # f /\ c \in Targets(f)
        /\ f \in Targets(c)
        /\ nodeID[c] # 0
    /\ \E f \in Funcs : f \in Targets(f) /\ nodeID[f] # 0

\* the functions whose visit is in progress: the chain of active calls
Active == {frames[j].n : j \in 1..Len(frames)}

\* the functions on the stack
OnStack == {stack[j] : j \in 1..Len(stack)}

\* C21 as stated: a function is on the stack exactly when its visit is in
\* progress and it has not been finalized.
C21_Original ==
    \A f \in Funcs :
        f \in OnStack <=> (f \in Active /\ nodeID[f] # Sentinel)

\* C21, amended: a function is on the stack exactly when its visit has
\* started and it has not been finalized; every function whose visit is in
\* progress and that is not finalized is on the stack, and a function on
\* the stack whose visit has returned lies above a function whose visit is
\* still in progress.
C21_OpenOnStack ==
    /\ \A f \in Funcs :
        f \in OnStack <=> (nodeID[f] # 0 /\ nodeID[f] # Sentinel)
    /\ \A f \in Active : nodeID[f] # Sentinel => f \in OnStack
    /\ \A j \in 1..Len(stack) :
        stack[j] \notin Active => \E k \in 1..(j - 1) : stack[k] \in Active

\* a function whose visit has returned is on the stack above one whose
\* visit is in progress, and neither is a closure
C21_Witness ==
    \E j, k \in 1..Len(stack) :
        /\ k < j
        /\ stack[k] \in Active /\ stack[j] \notin Active
        /\ ~IsHiddenClosure(stack[j])

\* C22: a visit of a function with a non-zero recorded ordinal returns that
\* ordinal at once: the counter, the ordinal map, the stack and the
\* invocations of analyze stay as they are and no call of visit is added;
\* the value is a real ordinal while the function is on the stack and the
\* sentinel once it is off it, the caller's min becomes the smaller of min
\* and the value, and the sentinel leaves it as it is.
C22_Memo ==
    [][/\ (AtRef /\ body[Top.n][Top.i] # Nil
              /\ nodeID[body[Top.n][Top.i]] # 0) =>
            LET t == body[Top.n][Top.i]
                m == nodeID[t]
            IN  /\ UNCHANGED <<visitgen, nodeID, stack, arrays, stackArr, calls>>
                /\ Len(frames') = Len(frames)
                /\ frames'[Len(frames)].i = Top.i + 1
                /\ frames'[Len(frames)].min = IF m < Top.min THEN m ELSE Top.min
                /\ t \in OnStack => IsReal(m)
                /\ t \notin OnStack =>
                    (m = Sentinel /\ frames'[Len(frames)].min = Top.min)
       /\ (frames = << >> /\ listed' = listed + 1
              /\ nodeID[listed'] # 0) => UNCHANGED travVars
       /\ (frames = << >> /\ extras' # extras) => UNCHANGED travVars]_vars

\* root 1 has been finalized and root 2, whose visit is in progress, has
\* passed its reference to 1 with its min unchanged; the visit of 3 has
\* passed its reference back to 2 and holds the ordinal of 2 as its min
C22_Witness ==
    /\ outer[1] = Nil /\ outer[2] = Nil
    /\ body[1] = << >> /\ body[2] = <<1, 3>> /\ body[3] = <<2>>
    /\ nodeID[1] = Sentinel
    /\ Len(frames) = 2
    /\ frames[1].n = 2 /\ frames[1].i = 2 /\ frames[1].min = Incr(frames[1].id)
    /\ frames[2].n = 3 /\ frames[2].i = 2 /\ frames[2].min = frames[1].id

\* the position of the function whose visit is at the top of the chain
TopPos == StackIndex(stack, Top.n, Len(stack))

\* the functions at or below Top.n on the stack that an edge explored during
\* the visit of Top.n leads back to: the targets of the edges of Top.n and
\* of the functions above it on the stack
Back ==
    {stack[k] : k \in {k \in 1..TopPos :
        \E j \in TopPos..Len(stack) : stack[k] \in Targets(stack[j])}}

\* the smallest element of a non-empty set of numbers
MinOf(S) == CHOOSE x \in S : \A y \in S : x <= y

\* C23: when a non-closure function with ordinal id has explored its edges,
\* min is the smallest of id+1 and the ordinals of the functions at or
\* below it on the stack that an explored path led back to.  min = id+1
\* iff there is none (only closures are above it on the stack); min = id
\* iff it is the only one; min < id iff one lies lower on the stack, and
\* then the function is in the component of a function lower on the stack
\* and the step closes nothing.  A step that closes has recursive = (min =
\* id).
C23_MinClassifies ==
    [][(AtTest /\ ~IsHiddenClosure(Top.n)) =>
        /\ Top.min = MinOf({Incr(Top.id)} \cup {nodeID[w] : w \in Back})
        /\ Top.min <= Incr(Top.id)
        /\ Top.min = Incr(Top.id) <=> Back = {}
        /\ Top.min = Top.id <=> Back = {Top.n}
        /\ Top.min < Top.id <=> Back \ {Top.n} # {}
        /\ Top.min = Incr(Top.id) =>
            \A j \in (TopPos + 1)..Len(stack) : IsHiddenClosure(stack[j])
        /\ Top.min < Top.id =>
            /\ \E k \in 1..(TopPos - 1) : Top.n \in ComponentUp(stack[k])
            /\ UNCHANGED <<stack, nodeID, calls>>
        /\ Top.min >= Top.id =>
            /\ Len(calls') = Len(calls) + 1
            /\ calls'[Len(calls')].recursive = (Top.min = Top.id)
            /\ calls'[Len(calls')].block[1] = Top.n]_vars

\* a non-closure function has explored its edges, one of them taken in a
\* function above it, and holds a min below its own ordinal
C23_Witness ==
    /\ AtTest /\ ~IsHiddenClosure(Top.n)
    /\ Top.min < Top.id
    /\ TopPos < Len(stack)
    /\ Back \cap Targets(Top.n) = {}

\* C24: every list passed to analyze is non-empty and in stack order: at
\* the step that invokes analyze the list is the suffix of the stack that
\* starts at the function whose visit is closing, a non-closure function,
\* and runs to the top; its members have strictly ascending real ordinals
\* and the stack that remains is what lay below it.
C24_StackOrder ==
    [][Len(calls') > Len(calls) =>
        LET b == calls'[Len(calls')].block
        IN  /\ Len(calls') = Len(calls) + 1
            /\ b # << >>
            /\ b[1] = Top.n
            /\ ~IsHiddenClosure(b[1])
            /\ stack = stack' \o b
            /\ \A j \in 1..Len(stack') : stack'[j] # Top.n
            /\ \A j \in 1..Len(b) : IsReal(nodeID[b[j]])
            /\ \A j, k \in 1..Len(b) :
                j < k => nodeID[b[j]] < nodeID[b[k]]]_vars

\* analyze has been invoked with a list of three functions, closed by a
\* function that was not at the bottom of the stack
C24_Witness ==
    \E k \in 1..Len(calls) :
        /\ Len(calls[k].block) = 3
        /\ calls[k].off > 1

\* C25: at the moment analyze is invoked every member of the list is off
\* the stack and has the sentinel as its ordinal, and the visit of the
\* closing function has not yet returned: its call is still the top of the
\* chain, holding the min it will return.
C25_FinalizedFirst ==
    [][Len(calls') > Len(calls) =>
        LET b == calls'[Len(calls')].block
        IN  /\ \A j \in 1..Len(b) :
                /\ nodeID'[b[j]] = Sentinel
                /\ \A k \in 1..Len(stack') : stack'[k] # b[j]
            /\ Len(frames') = Len(frames)
            /\ frames'[Len(frames')].n = b[1]
            /\ frames'[Len(frames')].at = "ret"
            /\ frames'[Len(frames')].min = Top.min]_vars

\* analyze has just been invoked with a list of two or more functions by a
\* visit that has a caller to return to
C25_Witness ==
    /\ Len(frames) >= 2 /\ Top.at = "ret"
    /\ calls # << >>
    /\ calls[Len(calls)].block[1] = Top.n
    /\ Len(calls[Len(calls)].block) >= 2
    /\ stack # << >>

\* C26: closures never close a component: when a closure has explored its
\* edges, or a non-closure function whose min is neither id nor id+1,
\* analyze is not invoked and the stack and the ordinals stay as they are,
\* the function staying on the stack with its real ordinal; the min is then
\* returned to the caller, which takes it when it is smaller than its own.
C26_NoClose ==
    [][/\ (AtTest /\ (IsHiddenClosure(Top.n)
                        \/ (Top.min # Top.id /\ Top.min # Incr(Top.id)))) =>
            /\ UNCHANGED <<calls, stack, nodeID, visitgen>>
            /\ Top.n \in OnStack
            /\ nodeID[Top.n] = Top.id /\ IsReal(Top.id)
            /\ frames' = [frames EXCEPT ![Len(frames)].at = "ret"]
       /\ (frames # << >> /\ Top.at = "ret" /\ Len(frames) > 1
              /\ nodeID[Top.n] # Sentinel) =>
            /\ Len(frames') = Len(frames) - 1
            /\ frames'[Len(frames')].min =
                    IF Top.min < frames[Len(frames) - 1].min
                    THEN Top.min ELSE frames[Len(frames) - 1].min
            /\ UNCHANGED <<calls, stack, nodeID, visitgen>>]_vars

\* the visit of a closure whose min is id+1 is about to return: the closure
\* is on the stack with its real ordinal and analyze was not invoked
C26_Witness ==
    /\ frames # << >> /\ Top.at = "ret"
    /\ IsHiddenClosure(Top.n)
    /\ Top.min = Incr(Top.id)
    /\ Top.n \in OnStack /\ nodeID[Top.n] = Top.id
    /\ calls = << >>

\* the functions visited so far
Visited == {f \in Funcs : nodeID[f] # 0}

\* the ordinals in use: those of the functions on the stack and the id and
\* the min of every active visit
Issued ==
    {nodeID[stack[j]] : j \in 1..Len(stack)}
        \cup {frames[j].id : j \in 1..Len(frames)}
        \cup {frames[j].min : j \in 1..Len(frames)}

\* C27: the sentinel is larger than every ordinal issued.  After k first
\* visits the counter is 2k, the ordinals on the stack are distinct odd
\* numbers 2j-1 with j in 1..k, the id of every active visit is such a
\* number and its min is at most id+1, all below the sentinel; for every
\* width w with k < 2^(w-1), the counter and the ordinals in use are what a
\* w-bit counter holds (nothing wrapped, the counter is not back at 0) and
\* none of them is 2^w - 1.  Every step leaves the counter as it is or is a
\* first visit, which adds 2 to it, records counter+1 as the id of one
\* function and seeds its min with counter+2.
C27_BelowSentinel ==
    /\ [](LET k == Cardinality(Visited)
              Ids == {2 * j - 1 : j \in 1..k}
          IN  /\ visitgen = 2 * k
              /\ \A j \in 1..Len(stack) : nodeID[stack[j]] \in Ids
              /\ \A i, j \in 1..Len(stack) :
                    i # j => nodeID[stack[i]] # nodeID[stack[j]]
              /\ \A j \in 1..Len(frames) :
                    /\ frames[j].id \in Ids
                    /\ frames[j].min <= frames[j].id + 1
              /\ \A x \in Issued : x < Sentinel
              /\ \A w \in 1..CounterBits :
                    k < 2^(w - 1) =>
                        /\ visitgen % (2^w) = 2 * k
                        /\ k > 0 => visitgen % (2^w) # 0
                        /\ \A x \in Issued :
                            x % (2^w) = x /\ x # 2^w - 1)
    /\ [][\/ visitgen' = visitgen /\ Visited' = Visited
          \/ /\ visitgen' = visitgen + 2
             /\ \E f \in Funcs \ Visited :
                    /\ Visited' = Visited \cup {f}
                    /\ nodeID'[f] = visitgen + 1
                    /\ frames'[Len(frames')].id = visitgen + 1
                    /\ frames'[Len(frames')].min = visitgen + 2]_vars

\* for some width w, one function fewer than 2^(w-1) has been visited, more
\* than one: the counter stands at 2^w - 2, the last visit is active with
\* id 2^w - 3 and min 2^w - 2, and an earlier function has the sentinel
C27_Witness ==
    /\ \E w \in 1..CounterBits :
        /\ Cardinality(Visited) = 2^(w - 1) - 1
        /\ Cardinality(Visited) > 1
        /\ visitgen = 2^w - 2
        /\ frames # << >> /\ Top.id = 2^w - 3 /\ Top.min = 2^w - 2
    /\ \E f \in Funcs : nodeID[f] = Sentinel

\* C28: when init has completed without exiting or panicking: on a GOARCH
\* other than amd64 all six regabi flags are off; Regabi implies
\* RegabiWrappers, RegabiG, RegabiReflect and RegabiDefer; RegabiG implies
\* RegabiWrappers; RegabiArgs implies RegabiWrappers, RegabiG,
\* RegabiReflect and RegabiDefer.
C28_RegabiInvariant ==
    ipc = "done" =>
        LET four == /\ Experiment[RegabiWrappers] /\ Experiment[RegabiG]
                    /\ Experiment[RegabiReflect] /\ Experiment[RegabiDefer]
        IN  /\ GOARCH # "amd64" => \A fld \in Fields : ~Experiment[fld]
            /\ Experiment[Regabi] => four
            /\ Experiment[RegabiG] => Experiment[RegabiWrappers]
            /\ Experiment[RegabiArgs] => four

\* init has completed on amd64 from a baseline with no flag on and
\* "regabi" in the environment: the four sub-experiments are on
C28_Witness ==
    /\ ipc = "done"
    /\ GOARCH = "amd64"
    /\ BaselineFlags = [fld \in Fields |-> FALSE]
    /\ Split(env) = <<ToLower(Regabi)>>
    /\ Experiment[RegabiDefer] /\ ~Experiment[RegabiArgs]

\* C29: whenever no visit is in progress (every top-level call of visit
\* made so far has returned, and so when visitBottomUp returns) the stack
\* is empty and every function visited so far has the sentinel as its
\* ordinal and has been passed to analyze.
C29_EmptyBetweenRoots ==
    frames = << >> =>
        /\ stack = << >>
        /\ \A f \in Funcs :
            nodeID[f] # 0 => (nodeID[f] = Sentinel /\ f \in Passed)

\* a top-level visit that made two invocations of analyze has returned and
\* the loop goes on, a function being still unvisited
C29_Witness ==
    /\ frames = << >> /\ pc = "loop"
    /\ Len(calls) >= 2
    /\ \E k \in 1..Len(calls) : Len(calls[k].block) >= 2
    /\ \E f \in Funcs : nodeID[f] = 0 /\ ~IsHiddenClosure(f)

\* C30: at every point of the traversal the stack holds, without
\* duplicates and with ordinals strictly increasing from bottom to top,
\* exactly the functions whose recorded ordinal is a real one, those whose
\* visit has returned without closing a component included.
C30_StackIsOpenSet ==
    /\ \A j, k \in 1..Len(stack) :
        j < k => nodeID[stack[j]] < nodeID[stack[k]]
    /\ \A j, k \in 1..Len(stack) : j # k => stack[j] # stack[k]
    /\ {stack[j] : j \in 1..Len(stack)} = {f \in Funcs : IsReal(nodeID[f])}

\* three functions are on the stack and the visits of the upper two have
\* returned
C30_Witness ==
    /\ Len(stack) = 3
    /\ Len(frames) = 1
    /\ frames[1].n = stack[1]
    /\ \A j \in 1..3 : IsReal(nodeID[stack[j]])

====
